---- MODULE Spec2Model ----
(***************************************************************************)
(* Model of membership_functions.py: the validated y_min / y_max           *)
(* properties, the six calculate_y evaluators, the textual formula         *)
(* derivation (get_function_def / insert_vars) and the CLI loop of main(). *)
(* Numbers are exact rationals [n, d]; d = 0 marks "no number" (an absent  *)
(* attribute, or the outcome of a division by zero).                       *)
(***************************************************************************)
EXTENDS Integers, Sequences, FiniteSets, TLC

VARIABLES f, out, pc, F, args, kwargs, log

vars == <<f, out, pc, F, args, kwargs, log>>

(* ------------------------------ bounds --------------------------------- *)
\* breakpoints a, b, m, m1, m2 range over the integers -1 .. MaxCoord
MaxCoord == 1
\* y_min / y_max candidates are the multiples of 1/YDen from -1/YDen to 1 + 1/YDen
YDen == 3
\* numbers typed at the CLI breakpoint prompts range over 0 .. MaxCliArg
MaxCliArg == 1

(* ---------------------------- rationals -------------------------------- *)
RECURSIVE GCD(_, _)
GCD(p, q) == IF q = 0 THEN p ELSE GCD(q, p % q)

Abs(i) == IF i < 0 THEN -i ELSE i

NaR == [n |-> 0, d |-> 0]

IsNum(r) == r.d # 0

R(n, d) ==
  IF d = 0 THEN NaR
  ELSE LET g == GCD(Abs(n), Abs(d))
           s == IF d < 0 THEN -1 ELSE 1
       IN [n |-> (s * n) \div g, d |-> (s * d) \div g]

I(i) == [n |-> i, d |-> 1]

RAdd(p, q) == IF IsNum(p) /\ IsNum(q) THEN R(p.n * q.d + q.n * p.d, p.d * q.d) ELSE NaR
RSub(p, q) == IF IsNum(p) /\ IsNum(q) THEN R(p.n * q.d - q.n * p.d, p.d * q.d) ELSE NaR
RMul(p, q) == IF IsNum(p) /\ IsNum(q) THEN R(p.n * q.n, p.d * q.d) ELSE NaR
RDiv(p, q) == IF IsNum(p) /\ IsNum(q) THEN R(p.n * q.d, p.d * q.n) ELSE NaR
RNeg(p) == RSub(I(0), p)

RECURSIVE RPow(_, _)
RPow(p, e) == IF e = 0 THEN I(1) ELSE RMul(p, RPow(p, e - 1))

RLt(p, q) == p.n * q.d < q.n * p.d
RLe(p, q) == p.n * q.d <= q.n * p.d
RGt(p, q) == RLt(q, p)
RGe(p, q) == RLe(q, p)

(* ------------------------------ inputs --------------------------------- *)
Coords == {I(i) : i \in (-1)..MaxCoord}
YVals == {R(k, YDen) : k \in (-1)..(YDen + 1)}
XVals == {R(k, 2) : k \in (-3)..(2 * MaxCoord + 1)}
Shapes == {"Linear", "Triangle", "Trapezoidal", "S", "Z", "Pi"}

(* ----------------------------- instances ------------------------------- *)
\* an attribute the class does not set holds NaR (hasattr is false)
None == [cls |-> "None", a |-> NaR, b |-> NaR, y_min |-> NaR, y_max |-> NaR,
         m |-> NaR, m1 |-> NaR, m2 |-> NaR]

\* outcome of a call that returns an instance or raises
Ok(o) == [exc |-> "", obj |-> o]
Raise(e) == [exc |-> e, obj |-> None]

y_min_setter_strict(self, val) ==
  IF RLt(val, I(0)) \/ RGt(val, I(1)) THEN Raise("ValueError")
  ELSE Ok([self EXCEPT !.y_min = val])

y_min_setter(self, val) ==
  IF RLt(val, I(0)) \/ RGe(val, I(1)) THEN Raise("ValueError")
  ELSE Ok([self EXCEPT !.y_min = val])

y_max_setter_strict(self, val) ==
  IF RGt(val, I(1)) \/ RLt(val, I(0)) THEN Raise("ValueError")
  ELSE Ok([self EXCEPT !.y_max = val])

y_max_setter(self, val) ==
  IF RGt(val, I(1)) \/ RLe(val, I(0)) THEN Raise("ValueError")
  ELSE Ok([self EXCEPT !.y_max = val])

\* MembershipFunction.__init__: a, b, then the two validated assignments
MembershipFunction_init(cls, a, b, y_min, y_max) ==
  LET o0 == [None EXCEPT !.cls = cls, !.a = a, !.b = b]
      r1 == y_min_setter(o0, y_min)
  IN IF r1.exc # "" THEN r1 ELSE y_max_setter(r1.obj, y_max)

Linear_init(a, b, y_min, y_max) == MembershipFunction_init("Linear", a, b, y_min, y_max)

Triangle_init(a, m, b, y_min, y_max) ==
  LET r == MembershipFunction_init("Triangle", a, b, y_min, y_max)
  IN IF r.exc # "" THEN r ELSE Ok([r.obj EXCEPT !.m = m])

Trapezoidal_init(a, m1, m2, b, y_min, y_max) ==
  LET r == MembershipFunction_init("Trapezoidal", a, b, y_min, y_max)
  IN IF r.exc # "" THEN r ELSE Ok([r.obj EXCEPT !.m1 = m1, !.m2 = m2])

S_init(a, b, y_min, y_max) == MembershipFunction_init("S", a, b, y_min, y_max)

Z_init(a, b, y_min, y_max) == MembershipFunction_init("Z", a, b, y_min, y_max)

Pi_init(a, m, b, y_min, y_max) ==
  LET r == MembershipFunction_init("Pi", a, b, y_min, y_max)
  IN IF r.exc # "" THEN r ELSE Ok([r.obj EXCEPT !.m = m])

REQUIRED_INIT_ARGUMENTS(cls) ==
  CASE cls = "Triangle" -> <<"a", "m", "b">>
    [] cls = "Trapezoidal" -> <<"a", "m1", "m2", "b">>
    [] cls = "Pi" -> <<"a", "m", "b">>
    [] OTHER -> <<"a", "b">>

\* F(*args, **kwargs) with args in the order of REQUIRED_INIT_ARGUMENTS
New(cls, as, y_min, y_max) ==
  CASE cls = "Linear" -> Linear_init(as[1], as[2], y_min, y_max)
    [] cls = "Triangle" -> Triangle_init(as[1], as[2], as[3], y_min, y_max)
    [] cls = "Trapezoidal" -> Trapezoidal_init(as[1], as[2], as[3], as[4], y_min, y_max)
    [] cls = "S" -> S_init(as[1], as[2], y_min, y_max)
    [] cls = "Z" -> Z_init(as[1], as[2], y_min, y_max)
    [] cls = "Pi" -> Pi_init(as[1], as[2], as[3], y_min, y_max)

(* ----------------------------- calculate_y ----------------------------- *)
\* what a call of calculate_y produces: a number, None (no guard matched),
\* or an exception
Val(r) == IF IsNum(r) THEN [kind |-> "value", v |-> r]
          ELSE [kind |-> "ZeroDivisionError", v |-> NaR]
RetNone == [kind |-> "None", v |-> NaR]
Exc(e) == [kind |-> e, v |-> NaR]

Linear_calculate_y_open(self, x) ==
  IF RLt(x, self.a) THEN Val(self.y_min)
  ELSE IF RGe(x, self.b) THEN Val(self.y_max)
  ELSE IF RLt(self.a, x) /\ RLt(x, self.b) THEN
    Val(RAdd(self.y_min,
             RMul(RDiv(RSub(self.y_max, self.y_min), RSub(self.b, self.a)),
                  RSub(x, self.a))))
  ELSE RetNone

Linear_calculate_y(self, x) ==
  IF RLe(x, self.a) THEN Val(self.y_min)
  ELSE IF RGe(x, self.b) THEN Val(self.y_max)
  ELSE IF RLt(self.a, x) /\ RLt(x, self.b) THEN
    Val(RAdd(self.y_min,
             RMul(RDiv(RSub(self.y_max, self.y_min), RSub(self.b, self.a)),
                  RSub(x, self.a))))
  ELSE RetNone

Triangle_calculate_y_rising(self, x) ==
  IF RLe(x, self.a) \/ RGe(x, self.b) THEN Val(self.y_min)
  ELSE IF RLt(self.a, x) /\ RLt(x, self.m) THEN
    Val(RAdd(self.y_min,
             RMul(RDiv(RSub(self.y_max, self.y_min), RSub(self.m, self.a)),
                  RSub(x, self.a))))
  ELSE IF RLe(self.m, x) /\ RLt(x, self.b) THEN
    Val(RAdd(self.y_max,
             RMul(RDiv(RSub(self.y_max, self.y_min), RSub(self.b, self.m)),
                  RSub(x, self.m))))
  ELSE RetNone

Triangle_calculate_y(self, x) ==
  IF RLe(x, self.a) \/ RGe(x, self.b) THEN Val(self.y_min)
  ELSE IF RLt(self.a, x) /\ RLt(x, self.m) THEN
    Val(RAdd(self.y_min,
             RMul(RDiv(RSub(self.y_max, self.y_min), RSub(self.m, self.a)),
                  RSub(x, self.a))))
  ELSE IF RLe(self.m, x) /\ RLt(x, self.b) THEN
    Val(RSub(self.y_max,
             RMul(RDiv(RSub(self.y_max, self.y_min), RSub(self.b, self.m)),
                  RSub(x, self.m))))
  ELSE RetNone

Trapezoidal_calculate_y_strict(self, x) ==
  IF RLe(x, self.a) \/ RGe(x, self.b) THEN Val(self.y_min)
  ELSE IF RLt(self.m1, x) /\ RLt(x, self.m2) THEN Val(self.y_max)
  ELSE IF RLt(self.a, x) /\ RLt(x, self.m1) THEN
    Val(RAdd(self.y_min,
             RMul(RDiv(RSub(self.y_max, self.y_min), RSub(self.m1, self.a)),
                  RSub(x, self.a))))
  ELSE IF RLt(self.m2, x) /\ RLt(x, self.b) THEN
    Val(RSub(self.y_max,
             RMul(RDiv(RSub(self.y_max, self.y_min), RSub(self.b, self.m2)),
                  RSub(x, self.m2))))
  ELSE RetNone

Trapezoidal_calculate_y(self, x) ==
  IF RLe(x, self.a) \/ RGe(x, self.b) THEN Val(self.y_min)
  ELSE IF RLt(self.m1, x) /\ RLt(x, self.m2) THEN Val(self.y_max)
  ELSE IF RLt(self.a, x) /\ RLe(x, self.m1) THEN
    Val(RAdd(self.y_min,
             RMul(RDiv(RSub(self.y_max, self.y_min), RSub(self.m1, self.a)),
                  RSub(x, self.a))))
  ELSE IF RLe(self.m2, x) /\ RLt(x, self.b) THEN
    Val(RSub(self.y_max,
             RMul(RDiv(RSub(self.y_max, self.y_min), RSub(self.b, self.m2)),
                  RSub(x, self.m2))))
  ELSE RetNone

S_calculate_y_open(self, x) ==
  LET mid == RDiv(RAdd(self.a, self.b), I(2))
  IN IF RLt(x, self.a) THEN Val(self.y_min)
     ELSE IF RGt(x, self.b) THEN Val(self.y_max)
     ELSE IF RLt(self.a, x) /\ RLe(x, mid) THEN
       Val(RAdd(self.y_min,
                RMul(RMul(I(2), RPow(RDiv(RSub(x, self.a), RSub(self.b, self.a)), 2)),
                     RSub(self.y_max, self.y_min))))
     ELSE IF RLt(mid, x) /\ RLe(x, self.b) THEN
       Val(RAdd(self.y_min,
                RMul(RSub(I(1),
                          RMul(I(2), RPow(RDiv(RSub(self.b, x), RSub(self.b, self.a)), 2))),
                     RSub(self.y_max, self.y_min))))
     ELSE RetNone

S_calculate_y(self, x) ==
  LET mid == RDiv(RAdd(self.a, self.b), I(2))
  IN IF RLe(x, self.a) THEN Val(self.y_min)
     ELSE IF RGt(x, self.b) THEN Val(self.y_max)
     ELSE IF RLt(self.a, x) /\ RLe(x, mid) THEN
       Val(RAdd(self.y_min,
                RMul(RMul(I(2), RPow(RDiv(RSub(x, self.a), RSub(self.b, self.a)), 2)),
                     RSub(self.y_max, self.y_min))))
     ELSE IF RLt(mid, x) /\ RLe(x, self.b) THEN
       Val(RAdd(self.y_min,
                RMul(RSub(I(1),
                          RMul(I(2), RPow(RDiv(RSub(self.b, x), RSub(self.b, self.a)), 2))),
                     RSub(self.y_max, self.y_min))))
     ELSE RetNone

\* y_max + y_min - <result of S>: None in the subtraction is a TypeError
Reflect(self, r) ==
  IF r.kind = "value" THEN Val(RSub(RAdd(self.y_max, self.y_min), r.v))
  ELSE IF r.kind = "None" THEN Exc("TypeError")
  ELSE r

Z_calculate_y_unreflected(self, x) ==
  LET s == S_init(self.a, self.b, self.y_min, self.y_max)
  IN IF s.exc # "" THEN Exc(s.exc)
     ELSE LET r == S_calculate_y(s.obj, x)
          IN IF r.kind = "value" THEN Val(RSub(self.y_max, r.v)) ELSE r

Z_calculate_y(self, x) ==
  LET s == S_init(self.a, self.b, self.y_min, self.y_max)
  IN IF s.exc # "" THEN Exc(s.exc) ELSE Reflect(self, S_calculate_y(s.obj, x))

Pi_calculate_y(self, x) ==
  IF RLe(x, self.m) THEN
    LET s == S_init(self.a, self.m, self.y_min, self.y_max)
    IN IF s.exc # "" THEN Exc(s.exc) ELSE S_calculate_y(s.obj, x)
  ELSE
    LET z == Z_init(self.m, self.b, self.y_min, self.y_max)
    IN IF z.exc # "" THEN Exc(z.exc) ELSE Z_calculate_y(z.obj, x)

calculate_y(self, x) ==
  CASE self.cls = "Linear" -> Linear_calculate_y(self, x)
    [] self.cls = "Triangle" -> Triangle_calculate_y(self, x)
    [] self.cls = "Trapezoidal" -> Trapezoidal_calculate_y(self, x)
    [] self.cls = "S" -> S_calculate_y(self, x)
    [] self.cls = "Z" -> Z_calculate_y(self, x)
    [] self.cls = "Pi" -> Pi_calculate_y(self, x)

(* -------------------------- formula derivation ------------------------ *)
\* Text is a sequence of tokens; a number token carries its value, every
\* other token its spelling.
Tok(s) == [t |-> s, n |-> 0, d |-> 1]
Num(r) == [t |-> "num", n |-> r.n, d |-> r.d]

\* the spelling of a source fragment: "1" and "2" are its only literals
T(ss) == [i \in 1..Len(ss) |->
            IF ss[i] = "1" THEN Num(I(1))
            ELSE IF ss[i] = "2" THEN Num(I(2))
            ELSE Tok(ss[i])]

\* str(value): a negative number is written with a leading minus sign
Str(r) == IF r.n < 0 THEN <<Tok("-"), Num(RNeg(r))>> ELSE <<Num(r)>>

\* re.findall('if (.+):') over the source of calculate_y
IfStatements(cls) ==
  CASE cls = "Linear" ->
         << T(<<"x", "<=", "self.a">>),
            T(<<"x", ">=", "self.b">>),
            T(<<"self.a", "<", "x", "<", "self.b">>) >>
    [] cls = "Triangle" ->
         << T(<<"(", "x", "<=", "self.a", ")", "or", "(", "x", ">=", "self.b", ")">>),
            T(<<"self.a", "<", "x", "<", "self.m">>),
            T(<<"self.m", "<=", "x", "<", "self.b">>) >>
    [] cls = "Trapezoidal" ->
         << T(<<"(", "x", "<=", "self.a", ")", "or", "(", "x", ">=", "self.b", ")">>),
            T(<<"self.m1", "<", "x", "<", "self.m2">>),
            T(<<"self.a", "<", "x", "<=", "self.m1">>),
            T(<<"self.m2", "<=", "x", "<", "self.b">>) >>
    [] cls = "S" ->
         << T(<<"x", "<=", "self.a">>),
            T(<<"x", ">", "self.b">>),
            T(<<"self.a", "<", "x", "<=", "(", "self.a", "+", "self.b", ")", "/", "2">>),
            T(<<"(", "self.a", "+", "self.b", ")", "/", "2", "<", "x", "<=", "self.b">>) >>
    [] cls = "Z" -> << >>
    [] cls = "Pi" -> << T(<<"x", "<=", "self.m">>) >>

\* re.findall('return (.+)') over the source of calculate_y
ReturnStatements(cls) ==
  CASE cls = "Linear" ->
         << T(<<"self.y_min">>),
            T(<<"self.y_max">>),
            T(<<"self.y_min", "+", "(", "(", "self.y_max", "-", "self.y_min", ")", "/",
                "(", "self.b", "-", "self.a", ")", ")", "*", "(", "x", "-", "self.a", ")">>) >>
    [] cls = "Triangle" ->
         << T(<<"self.y_min">>),
            T(<<"self.y_min", "+", "(", "self.y_max", "-", "self.y_min", ")", "/",
                "(", "self.m", "-", "self.a", ")", "*", "(", "x", "-", "self.a", ")">>),
            T(<<"self.y_max", "-", "(", "self.y_max", "-", "self.y_min", ")", "/",
                "(", "self.b", "-", "self.m", ")", "*", "(", "x", "-", "self.m", ")">>) >>
    [] cls = "Trapezoidal" ->
         << T(<<"self.y_min">>),
            T(<<"self.y_max">>),
            T(<<"self.y_min", "+", "(", "(", "self.y_max", "-", "self.y_min", ")", "/",
                "(", "self.m1", "-", "self.a", ")", ")", "*", "(", "x", "-", "self.a", ")">>),
            T(<<"self.y_max", "-", "(", "(", "self.y_max", "-", "self.y_min", ")", "/",
                "(", "self.b", "-", "self.m2", ")", ")", "*", "(", "x", "-", "self.m2", ")">>) >>
    [] cls = "S" ->
         << T(<<"self.y_min">>),
            T(<<"self.y_max">>),
            T(<<"self.y_min", "+", "2", "*", "pow", "(", "(", "x", "-", "self.a", ")", "/",
                "(", "self.b", "-", "self.a", ")", ",", "2", ")", "*",
                "(", "self.y_max", "-", "self.y_min", ")">>),
            T(<<"self.y_min", "+", "(", "1", "-", "2", "*", "pow", "(",
                "(", "self.b", "-", "x", ")", "/", "(", "self.b", "-", "self.a", ")", ",", "2", ")",
                ")", "*", "(", "self.y_max", "-", "self.y_min", ")">>) >>
    [] cls = "Z" ->
         << T(<<"self.y_max", "+", "self.y_min", "-", "S", "(", "a", "=", "self.a", ",",
                "b", "=", "self.b", ",", "y_max", "=", "self.y_max", ",",
                "y_min", "=", "self.y_min", ")", ".", "calculate_y", "(", "x", ")">>) >>
    [] cls = "Pi" ->
         << T(<<"S", "(", "a", "=", "self.a", ",", "b", "=", "self.m", ",",
                "y_max", "=", "self.y_max", ",", "y_min", "=", "self.y_min", ")",
                ".", "calculate_y", "(", "x", ")">>),
            T(<<"Z", "(", "a", "=", "self.m", ",", "b", "=", "self.b", ",",
                "y_max", "=", "self.y_max", ",", "y_min", "=", "self.y_min", ")",
                ".", "calculate_y", "(", "x", ")">>) >>

get_if_statements(self) == IfStatements(self.cls)
get_return_statements(self) == ReturnStatements(self.cls)

\* vars(self): attribute names in the order __init__ assigned them, each
\* with lstrip('_') applied and its value
Vars(self) ==
  LET base == << <<"self.a", self.a>>, <<"self.b", self.b>>,
                 <<"self.y_min", self.y_min>>, <<"self.y_max", self.y_max>> >>
  IN CASE self.cls \in {"Triangle", "Pi"} -> Append(base, <<"self.m", self.m>>)
       [] self.cls = "Trapezoidal" ->
            base \o << <<"self.m1", self.m1>>, <<"self.m2", self.m2>> >>
       [] OTHER -> base

\* expr.replace(name, s) on one expression, s being the text of a value:
\* every occurrence of the name gives way to the tokens of s
RECURSIVE ReplaceFrom(_, _, _, _)
ReplaceFrom(expr, i, name, s) ==
  IF i > Len(expr) THEN << >>
  ELSE (IF expr[i].t = name THEN s ELSE <<expr[i]>>) \o ReplaceFrom(expr, i + 1, name, s)

Replace(expr, name, val) ==
  LET s == Str(val)
  IN IF Len(s) = 1
     THEN [i \in 1..Len(expr) |-> IF expr[i].t = name THEN s[1] ELSE expr[i]]
     ELSE ReplaceFrom(expr, 1, name, s)

RECURSIVE InsertFrom(_, _, _)
InsertFrom(vs, k, expressions) ==
  IF k > Len(vs) THEN expressions
  ELSE InsertFrom(vs, k + 1,
         [i \in 1..Len(expressions) |-> Replace(expressions[i], vs[k][1], vs[k][2])])

insert_vars(self, expressions) == InsertFrom(Vars(self), 1, expressions)

Min(i, j) == IF i < j THEN i ELSE j

\* one line of a definition: the enclosing Pi guard (empty outside Pi), the
\* guard text and the expression text before simplification
Branch(outer, if_, return_) == [outer |-> outer, if_ |-> if_, return_ |-> return_]

\* MembershipFunction.get_function_def: zip(ifs, returns)
Base_get_function_def(self) ==
  LET ifs == insert_vars(self, get_if_statements(self))
      returns == insert_vars(self, get_return_statements(self))
  IN [i \in 1..Min(Len(ifs), Len(returns)) |-> Branch(<< >>, ifs[i], returns[i])]

\* Z.get_function_def: f'{self.y_max} + {self.y_min} - {return_}'
Z_get_function_def(self) ==
  LET s == S_init(self.a, self.b, self.y_min, self.y_max).obj
      ifs == insert_vars(self, get_if_statements(s))
      returns == insert_vars(self, get_return_statements(s))
  IN [i \in 1..Min(Len(ifs), Len(returns)) |->
        Branch(<< >>, ifs[i],
               Str(self.y_max) \o <<Tok("+")>> \o Str(self.y_min) \o <<Tok("-")>>
                 \o returns[i])]

\* Pi.get_function_def: the S definition under 'x <= m', the Z one under 'x > m'
Pi_get_function_def(self) ==
  LET s == S_init(self.a, self.m, self.y_min, self.y_max).obj
      z == Z_init(self.m, self.b, self.y_min, self.y_max).obj
      sd == Base_get_function_def(s)
      zd == Z_get_function_def(z)
  IN [i \in 1..Len(sd) |->
        Branch(<<Tok("x"), Tok("<=")>> \o Str(self.m), sd[i].if_, sd[i].return_)]
     \o
     [i \in 1..Len(zd) |->
        Branch(<<Tok("x"), Tok(">")>> \o Str(self.m), zd[i].if_, zd[i].return_)]

get_function_def(self) ==
  CASE self.cls = "Z" -> Z_get_function_def(self)
    [] self.cls = "Pi" -> Pi_get_function_def(self)
    [] OTHER -> Base_get_function_def(self)

(* ---------------- reading a derived text at a value of x --------------- *)
\* Python's grammar for the operators the texts use, loosest first:
\*   or;  < <= > >= (chained);  + -;  * /;  unary -;  atoms and calls.
\* A parse yields the number v, the truth value t and the unread tokens.
PR(v, t, rest) == [v |-> v, t |-> t, rest |-> rest]

IsTok(ts, s) == ts # << >> /\ Head(ts).t = s

CmpOps == {"<", "<=", ">", ">="}

Compare(op, p, q) ==
  CASE op = "<" -> RLt(p, q)
    [] op = "<=" -> RLe(p, q)
    [] op = ">" -> RGt(p, q)
    [] op = ">=" -> RGe(p, q)

RECURSIVE ParseOr(_, _), ParseCmp(_, _), CmpTail(_, _, _), ParseSum(_, _), SumTail(_, _, _)
RECURSIVE ParseProd(_, _), ProdTail(_, _, _), ParseUnary(_, _), ParseAtom(_, _)

ParseAtom(ts, x) ==
  IF ts = << >> THEN PR(NaR, FALSE, << >>)
  ELSE IF Head(ts).t = "num" THEN PR([n |-> Head(ts).n, d |-> Head(ts).d], FALSE, Tail(ts))
  ELSE IF Head(ts).t = "x" THEN PR(x, FALSE, Tail(ts))
  ELSE IF Head(ts).t = "(" THEN
    LET r == ParseOr(Tail(ts), x)
    IN IF IsTok(r.rest, ")") THEN PR(r.v, r.t, Tail(r.rest)) ELSE PR(NaR, FALSE, << >>)
  ELSE IF Head(ts).t = "pow" /\ IsTok(Tail(ts), "(") THEN
    LET r1 == ParseOr(Tail(Tail(ts)), x)
    IN IF IsTok(r1.rest, ",") THEN
         LET r2 == ParseOr(Tail(r1.rest), x)
         IN IF IsTok(r2.rest, ")") /\ IsNum(r2.v) /\ r2.v.d = 1 /\ r2.v.n >= 0
            THEN PR(RPow(r1.v, r2.v.n), FALSE, Tail(r2.rest))
            ELSE PR(NaR, FALSE, << >>)
       ELSE PR(NaR, FALSE, << >>)
  ELSE PR(NaR, FALSE, << >>)

ParseUnary(ts, x) ==
  IF IsTok(ts, "-") THEN
    LET r == ParseUnary(Tail(ts), x) IN PR(RNeg(r.v), FALSE, r.rest)
  ELSE ParseAtom(ts, x)

ProdTail(acc, ts, x) ==
  IF IsTok(ts, "*") THEN
    LET r == ParseUnary(Tail(ts), x) IN ProdTail(PR(RMul(acc.v, r.v), FALSE, r.rest), r.rest, x)
  ELSE IF IsTok(ts, "/") THEN
    LET r == ParseUnary(Tail(ts), x) IN ProdTail(PR(RDiv(acc.v, r.v), FALSE, r.rest), r.rest, x)
  ELSE acc

ParseProd(ts, x) == LET r == ParseUnary(ts, x) IN ProdTail(r, r.rest, x)

SumTail(acc, ts, x) ==
  IF IsTok(ts, "+") THEN
    LET r == ParseProd(Tail(ts), x) IN SumTail(PR(RAdd(acc.v, r.v), FALSE, r.rest), r.rest, x)
  ELSE IF IsTok(ts, "-") THEN
    LET r == ParseProd(Tail(ts), x) IN SumTail(PR(RSub(acc.v, r.v), FALSE, r.rest), r.rest, x)
  ELSE acc

ParseSum(ts, x) == LET r == ParseProd(ts, x) IN SumTail(r, r.rest, x)

\* a < x <= b means (a < x) and (x <= b); acc.v is the last operand read
CmpTail(acc, ts, x) ==
  IF ts # << >> /\ Head(ts).t \in CmpOps THEN
    LET r == ParseSum(Tail(ts), x)
    IN CmpTail(PR(r.v, acc.t /\ Compare(Head(ts).t, acc.v, r.v), r.rest), r.rest, x)
  ELSE acc

ParseCmp(ts, x) ==
  LET r == ParseSum(ts, x)
  IN IF r.rest # << >> /\ Head(r.rest).t \in CmpOps
     THEN CmpTail(PR(r.v, TRUE, r.rest), r.rest, x)
     ELSE r

ParseOr(ts, x) ==
  LET r == ParseCmp(ts, x)
  IN IF IsTok(r.rest, "or") THEN
       LET r2 == ParseOr(Tail(r.rest), x) IN PR(NaR, r.t \/ r2.t, r2.rest)
     ELSE r

\* the number an expression text denotes at x (NaR if it denotes none)
EvalText(ts, x) == LET r == ParseOr(ts, x) IN IF r.rest = << >> THEN r.v ELSE NaR
\* whether a guard text holds at x; the empty guard holds
GuardHolds(ts, x) == ts = << >> \/ LET r == ParseOr(ts, x) IN r.rest = << >> /\ r.t

(* ------------------------ operations on one instance ------------------- *)
NoRet == [kind |-> "", v |-> NaR]
\* the keyword overrides typed so far; NaR stands for a key not given
NoKwargs == [y_min |-> NaR, y_max |-> NaR]
Out(op, arg, exc, ret, def) == [op |-> op, arg |-> arg, exc |-> exc, ret |-> ret, def |-> def]

ArgTuples(cls) == [1..Len(REQUIRED_INIT_ARGUMENTS(cls)) -> Coords]

cliIdle == /\ pc = "api" /\ UNCHANGED <<pc, F, args, kwargs, log>>

\* f = Cls(*as, y_min=.., y_max=..): either an instance or the exception
Construct ==
  /\ f = None
  /\ \E cls \in Shapes : \E as \in ArgTuples(cls) : \E y_min \in YVals, y_max \in YVals :
       LET r == New(cls, as, y_min, y_max)
       IN /\ f' = r.obj
          /\ out' = Out("init", <<y_min, y_max>>, r.exc, NoRet, << >>)
  /\ cliIdle

\* f.y_min = val
SetYMin ==
  /\ f # None
  /\ \E val \in YVals :
       LET r == y_min_setter(f, val)
       IN /\ f' = IF r.exc = "" THEN r.obj ELSE f
          /\ out' = Out("set_y_min", val, r.exc, NoRet, << >>)
  /\ cliIdle

\* f.y_max = val
SetYMax ==
  /\ f # None
  /\ \E val \in YVals :
       LET r == y_max_setter(f, val)
       IN /\ f' = IF r.exc = "" THEN r.obj ELSE f
          /\ out' = Out("set_y_max", val, r.exc, NoRet, << >>)
  /\ cliIdle

\* f.calculate_y(x)
CalculateY ==
  /\ f # None
  /\ \E x \in XVals : out' = Out("calculate_y", x, "", calculate_y(f, x), << >>)
  /\ UNCHANGED f
  /\ cliIdle

\* f.get_function_def()
GetFunctionDef ==
  /\ f # None
  /\ out' = Out("get_function_def", NaR, "", NoRet, get_function_def(f))
  /\ UNCHANGED f
  /\ cliIdle

Init ==
  /\ f = None
  /\ out = Out("", NaR, "", NoRet, << >>)
  /\ pc = "api" /\ F = "" /\ args = << >> /\ kwargs = NoKwargs /\ log = {}

\* construction, the validated setters and point queries
Next == Construct \/ SetYMin \/ SetYMax \/ CalculateY

Spec == Init /\ [][Next]_vars

\* construction, the validated setters and formula derivation
NextDef == Construct \/ SetYMin \/ SetYMax \/ GetFunctionDef

SpecDef == Init /\ [][NextDef]_vars

(* ------------------------------ CLI loop ------------------------------- *)
\* what the user can type at a breakpoint prompt or at the x prompt: text
\* float() rejects, or a number
CliFloats == {I(i) : i \in 0..MaxCliArg}
\* the numbers the y_max/min pattern admits (unsigned), in halves up to 3/2
CliYVals == {R(k, 2) : k \in 0..3}
FUNCTIONS == Shapes

\* get_float_input: float(input()) or, on ValueError, the value False;
\* ok tells the two apart, truthy is what 'if arg_val' tests
get_float_input(typed) ==
  IF typed = NaR THEN [ok |-> FALSE, truthy |-> FALSE, v |-> NaR]
  ELSE [ok |-> TRUE, truthy |-> typed.n # 0, v |-> typed]

instantiate_membership_function_uncaught(cls, as, kw) ==
  LET r == New(cls, as,
               IF IsNum(kw.y_min) THEN kw.y_min ELSE I(0),
               IF IsNum(kw.y_max) THEN kw.y_max ELSE I(1))
  IN [ret |-> r.obj, printed |-> FALSE, exc |-> r.exc]

\* handle_value_error around F(*args, **kwargs): a ValueError is printed
\* and turned into the return value False (modelled by None)
instantiate_membership_function(cls, as, kw) ==
  LET r == New(cls, as,
               IF IsNum(kw.y_min) THEN kw.y_min ELSE I(0),
               IF IsNum(kw.y_max) THEN kw.y_max ELSE I(1))
  IN IF r.exc = "ValueError" THEN [ret |-> None, printed |-> TRUE, exc |-> ""]
     ELSE [ret |-> r.obj, printed |-> FALSE, exc |-> r.exc]

\* main: 'Choose function:' answered with a key of FUNCTIONS
ChooseFunction ==
  /\ pc = "menu"
  /\ \E cls \in FUNCTIONS :
       /\ F' = cls
       /\ args' = << >> /\ kwargs' = NoKwargs
       /\ log' = {"choose"}
       /\ out' = Out("", NaR, "", NoRet, << >>)
       /\ pc' = "args"
  /\ UNCHANGED f

\* main: any other answer; 'e' or 'E' at the second prompt runs examples()
ChooseUnrecognized ==
  /\ pc = "menu"
  /\ \E e \in BOOLEAN :
       /\ F' = ""
       /\ log' = IF e THEN {"examples"} ELSE {}
  /\ UNCHANGED <<f, out, pc, args, kwargs>>

\* get_init_args_input: one answer to the prompt for the next breakpoint;
\* anything falsy (rejected text, or 0) is asked again
EnterArg ==
  /\ pc = "args"
  /\ \E typed \in CliFloats \cup {NaR} :
       LET r == get_float_input(typed)
       IN /\ args' = IF r.truthy THEN Append(args, r.v) ELSE args
          /\ pc' = IF Len(args') = Len(REQUIRED_INIT_ARGUMENTS(F)) THEN "kwargs" ELSE "args"
  /\ UNCHANGED <<f, out, F, kwargs, log>>

\* get_init_kwargs_input: one non-empty line. A line the pattern does not
\* match is answered 'invalid input format'; a matched number is stored under
\* its key; a matched number written with a leading '?' makes float() raise
\* a ValueError that nothing in main catches
EnterKwarg ==
  /\ pc = "kwargs"
  /\ \E line \in {"malformed", "number", "?number"} :
     \E key \in {"y_min", "y_max"} : \E val \in CliYVals :
       CASE line = "malformed" -> pc' = "kwargs" /\ UNCHANGED kwargs
         [] line = "?number" -> pc' = "crashed" /\ UNCHANGED kwargs
         [] line = "number" -> pc' = "kwargs" /\ kwargs' = [kwargs EXCEPT ![key] = val]
  /\ UNCHANGED <<f, out, F, args, log>>

\* get_init_kwargs_input: the empty line ends the loop
EnterKwargDone ==
  /\ pc = "kwargs"
  /\ pc' = "instantiate"
  /\ UNCHANGED <<f, out, F, args, kwargs, log>>

\* main: f = instantiate_membership_function(F, args, kwargs); if not f: continue
Instantiate ==
  /\ pc = "instantiate"
  /\ LET r == instantiate_membership_function(F, args, kwargs)
     IN /\ f' = r.ret
        /\ log' = IF r.printed THEN log \cup {"reported"} ELSE log
        /\ pc' = IF r.exc # "" THEN "crashed"
                 ELSE IF r.ret = None THEN "menu"
                 ELSE "derive"
        /\ out' = Out("init", NaR, r.exc, NoRet, << >>)
  /\ UNCHANGED <<F, args, kwargs>>

\* main: f.get_function_def()
Derive ==
  /\ pc = "derive"
  /\ out' = Out("get_function_def", NaR, "", NoRet, get_function_def(f))
  /\ log' = log \cup {"derive"}
  /\ pc' = "plot"
  /\ UNCHANGED <<f, F, args, kwargs>>

\* main: f.plot()
Plot ==
  /\ pc = "plot"
  /\ log' = log \cup {"plot"}
  /\ pc' = "ask"
  /\ UNCHANGED <<f, out, F, args, kwargs>>

\* ask_to_calculate_y: a number is answered with calculate_y, anything
\* else ends the inner loop
AskToCalculateY ==
  /\ pc = "ask"
  /\ \E typed \in XVals \cup {NaR} :
       LET r == get_float_input(typed)
       IN IF r.ok
          THEN /\ out' = Out("calculate_y", r.v, "", calculate_y(f, r.v), << >>)
               /\ log' = log \cup {"query"}
               /\ pc' = "ask"
          ELSE /\ pc' = "menu"
               /\ UNCHANGED <<out, log>>
  /\ UNCHANGED <<f, F, args, kwargs>>

InitCLI ==
  /\ f = None
  /\ out = Out("", NaR, "", NoRet, << >>)
  /\ pc = "menu" /\ F = "" /\ args = << >> /\ kwargs = NoKwargs /\ log = {}

NextCLI ==
  \/ ChooseFunction \/ ChooseUnrecognized \/ EnterArg \/ EnterKwarg
  \/ EnterKwargDone \/ Instantiate \/ Derive \/ Plot \/ AskToCalculateY

SpecCLI == InitCLI /\ [][NextCLI]_vars

(* ------------------------------ properties ----------------------------- *)
\* the breakpoint ordering the data model asks of each shape
Ordered(o) ==
  CASE o.cls \in {"Linear", "S", "Z"} -> RLt(o.a, o.b)
    [] o.cls \in {"Triangle", "Pi"} -> RLt(o.a, o.m) /\ RLt(o.m, o.b)
    [] o.cls = "Trapezoidal" -> RLt(o.a, o.m1) /\ RLe(o.m1, o.m2) /\ RLt(o.m2, o.b)
    [] OTHER -> FALSE

YMinLegal(v) == RLe(I(0), v) /\ RLt(v, I(1))
YMaxLegal(v) == RLt(I(0), v) /\ RLe(v, I(1))

Queried == f # None /\ out.op = "calculate_y"

\* C1: every instance, after construction and after any accepted or rejected
\* setter call, has 0 <= y_min < 1 and 0 < y_max <= 1.
C1_RangeInvariant == f # None => YMinLegal(f.y_min) /\ YMaxLegal(f.y_max)

C1_Witness ==
  /\ f # None /\ f.y_min = R(YDen - 1, YDen) /\ f.y_max = R(1, YDen)
  /\ out.op = "set_y_min" /\ out.exc = "ValueError" /\ out.arg = I(1)

\* C2: y_min = v is rejected exactly when v < 0 or v >= 1 and y_max = v exactly
\* when v <= 0 or v > 1, in the constructor as in the setters; a rejected
\* setter call changes nothing of the instance and a rejected construction
\* leaves no instance.
C2_Verdicts ==
  /\ out.op = "set_y_min" => (out.exc = "ValueError" <=> ~YMinLegal(out.arg))
  /\ out.op = "set_y_max" => (out.exc = "ValueError" <=> ~YMaxLegal(out.arg))
  /\ out.op = "init" =>
       /\ out.exc = "ValueError" <=> (~YMinLegal(out.arg[1]) \/ ~YMaxLegal(out.arg[2]))
       /\ out.exc # "" => f = None
       /\ out.exc = "" => f # None /\ f.y_min = out.arg[1] /\ f.y_max = out.arg[2]

C2_RejectedStep ==
  (out'.op \in {"set_y_min", "set_y_max"} /\ out'.exc # "") => f' = f

C2_RejectExactly == []C2_Verdicts /\ [][C2_RejectedStep]_vars

C2_Witness ==
  /\ f # None /\ out.op = "set_y_max" /\ out.exc = "ValueError" /\ out.arg = I(0)

\* C3: a constructor returns an instance only if the breakpoints are ordered
\* as the shape requires (a < b; a < m < b; a < m1 <= m2 < b).
C3_OrderingValidated == f # None => Ordered(f)

\* C4 as stated: for every accepted instance and every x,
\* y_min <= calculate_y(x) <= y_max.
C4_RangeContainment ==
  Queried => /\ out.ret.kind = "value"
             /\ RLe(f.y_min, out.ret.v) /\ RLe(out.ret.v, f.y_max)

\* C4 amended: for every accepted instance with y_min <= y_max and every x,
\* y_min <= calculate_y(x) <= y_max.
C4_RangeContainmentWhenRangeOrdered ==
  (Queried /\ RLe(f.y_min, f.y_max)) =>
     /\ out.ret.kind = "value"
     /\ RLe(f.y_min, out.ret.v) /\ RLe(out.ret.v, f.y_max)

C4_Witness ==
  /\ Queried /\ f.cls = "Triangle" /\ RLt(f.y_min, f.y_max)
  /\ RLe(f.m, out.arg) /\ RLt(out.arg, f.b) /\ RLt(f.a, out.arg)
  /\ RLt(f.y_min, out.ret.v) /\ RLt(out.ret.v, f.y_max)

\* C5 as stated: for each of the six shapes with ordered breakpoints,
\* calculate_y(a) = y_min.
C5_LowerBreakpointIsMin ==
  (Queried /\ Ordered(f) /\ out.arg = f.a) => out.ret = Val(f.y_min)

\* C5 amended: with ordered breakpoints, calculate_y(a) = y_min for Linear,
\* Triangle, Trapezoidal, S and Pi, and calculate_y(a) = y_max for Z.
C5_LowerBreakpointValue ==
  (Queried /\ Ordered(f) /\ out.arg = f.a) =>
     out.ret = Val(IF f.cls = "Z" THEN f.y_max ELSE f.y_min)

C5_Witness ==
  /\ Queried /\ Ordered(f) /\ out.arg = f.a /\ f.cls = "Z"
  /\ f.y_min # f.y_max /\ out.ret = Val(f.y_max)

C7_Reflection ==
  (Queried /\ Ordered(f) /\ f.cls \in {"S", "Z"}) =>
     LET s == S_calculate_y(S_init(f.a, f.b, f.y_min, f.y_max).obj, out.arg)
         z == Z_calculate_y(Z_init(f.a, f.b, f.y_min, f.y_max).obj, out.arg)
     IN /\ out.ret = (IF f.cls = "S" THEN s ELSE z)
        /\ s.kind = "value" /\ z.kind = "value"
        /\ RAdd(s.v, z.v) = RAdd(f.y_min, f.y_max)

C7_Witness ==
  /\ Queried /\ Ordered(f) /\ f.cls = "Z" /\ RLt(I(0), f.y_min) /\ RLt(f.y_min, f.y_max)
  /\ RLt(f.a, out.arg) /\ RLt(out.arg, f.b)
  /\ RLt(f.y_min, out.ret.v) /\ RLt(out.ret.v, f.y_max)

\* a derived definition agrees with calculate_y wherever its guards hold
RoundTrip(o, def) ==
  \A i \in 1..Len(def) : \A x \in XVals :
    (GuardHolds(def[i].outer, x) /\ GuardHolds(def[i].if_, x)) =>
       Val(EvalText(def[i].return_, x)) = calculate_y(o, x)

\* C8: for every shape with ordered breakpoints, each derived branch
\* expression, read with the usual operator precedence at an x that satisfies
\* the branch's guard, equals calculate_y(x).
C8_RoundTrip ==
  (f # None /\ out.op = "get_function_def" /\ Ordered(f)) => RoundTrip(f, out.def)

\* the same for the four shapes whose text is not built from S's branches
C8_RoundTripOwnText ==
  (f # None /\ out.op = "get_function_def" /\ Ordered(f) /\ f.cls \notin {"Z", "Pi"})
     => RoundTrip(f, out.def)

\* C10: for every instance, ordered or not, and every x, calculate_y(x)
\* returns a number: it neither falls through nor divides by zero.
C10_TotalUnordered == Queried => out.ret.kind = "value"

C10_Witness ==
  /\ Queried /\ f.cls = "Trapezoidal" /\ f.m1 = f.a /\ f.m2 = f.b /\ RLt(f.a, f.b)
  /\ RLt(f.a, out.arg) /\ RLt(out.arg, f.b) /\ out.ret = Val(f.y_max)

\* C9: when constructing the chosen shape fails in the CLI loop, the failure
\* is reported, the next prompt is the shape menu, no derivation, plot or
\* point query runs for that attempt, and the error does not end the loop.
ConstructionFails(cls, as, kw) ==
  New(cls, as, IF IsNum(kw.y_min) THEN kw.y_min ELSE I(0),
               IF IsNum(kw.y_max) THEN kw.y_max ELSE I(1)).exc # ""

C9_FailedStep ==
  (pc = "instantiate" /\ ConstructionFails(F, args, kwargs)) =>
     /\ pc' = "menu"
     /\ "reported" \in log'
     /\ f' = None
     /\ log' \cap {"derive", "plot", "query"} = {}

C9_AfterFailure ==
  "reported" \in log => /\ pc = "menu"
                        /\ log \cap {"derive", "plot", "query"} = {}

C9_FailureReturnsToMenu == []C9_AfterFailure /\ [][C9_FailedStep]_vars

C9_Witness ==
  /\ pc = "menu" /\ "reported" \in log /\ f = None
  /\ F = "Pi" /\ kwargs.y_max = R(3, 2)

====
